---- MODULE Spec2Model ----
(***************************************************************************)
(* Movie catalogue backend (core/utils.py, core/views.py, core/models.py): *)
(* the cache / local store / provider pipeline, the interaction store and  *)
(* the recommendation engine.                                              *)
(*                                                                         *)
(* Python dicts are records (key presence is DOMAIN membership), lists are *)
(* sequences, None is the record None.  Of the six scalar Movie columns    *)
(* the model keeps title (a column with a .get default), release_date (the *)
(* column with the "or None" conversion) and popularity (the sort key);    *)
(* overview, poster_path and vote_average are copied exactly like title    *)
(* and popularity and are left out.                                        *)
(***************************************************************************)
EXTENDS Integers, Sequences, FiniteSets, TLC

\* ------------------------------------------------------------------ bounds
MaxClock == 2          \* store writes that stamp a timestamp
MaxResults == 2        \* length of a provider result list
MaxInteractions == 2   \* interaction rows ever created (AutoField values)
MaxCatalogue == 22     \* Movie rows of the catalogue the engine is run over

\* --------------------------------------------------------------- constants
TRENDING_TIMEOUT == 3600
DETAIL_TIMEOUT == 86400
RECOMMENDATION_LIMIT == 20
HTTP_200_OK == 200
HTTP_201_CREATED == 201
HTTP_204_NO_CONTENT == 204
HTTP_400_BAD_REQUEST == 400
HTTP_403_FORBIDDEN == 403
HTTP_404_NOT_FOUND == 404
HTTP_409_CONFLICT == 409
HTTP_500_INTERNAL_SERVER_ERROR == 500
HTTP_503_SERVICE_UNAVAILABLE == 503

\* ------------------------------------------------------------ Python values
None == [py |-> "None"]
NullDate == "None"
JsonList(s) == [list |-> s]
Get(d, k, default) == IF k \in DOMAIN d THEN d[k] ELSE default
Truthy(v) == v # None /\ v # JsonList(<<>>) /\ DOMAIN v # {}

\* ------------------------------------------------------------ input domains
ExternalIds == {1, 2}          \* external ids the provider's records carry
DetailIds == {1}               \* external ids asked for by external id
Users == {"u1", "u2"}
LIKED == "LIKED"
BOOKMARKED == "BOOKMARKED"
WATCHED == "WATCHED"
InteractionType == {LIKED, BOOKMARKED, WATCHED}

\* Genre lists the provider's /genre/movie/list may report.
GenreLists ==
    { <<[id |-> 1, name |-> "Action"]>>,
      <<[id |-> 1, name |-> "Action"], [id |-> 2, name |-> "Drama"]>> }

\* Records of the provider's list endpoints (bare genre ids).  One record
\* carries no id, one carries no title and no release date.
ListRecords ==
    { [id |-> 1, title |-> "A", release_date |-> "", popularity |-> 2,
       genre_ids |-> <<1>>],
      [id |-> 1, title |-> "A2", release_date |-> "2020-01-01",
       popularity |-> 1, genre_ids |-> <<2>>],
      [id |-> 2, popularity |-> 3, genre_ids |-> <<1, 2>>],
      [title |-> "X", popularity |-> 1, genre_ids |-> <<1>>] }

\* Records of the provider's detail endpoint for external id e (genre
\* id+name pairs).
DetailRecords(e) ==
    { [id |-> e, title |-> "A", release_date |-> "2020-01-01",
       popularity |-> 2, genres |-> <<[id |-> 1, name |-> "Action"]>>],
      [id |-> e, title |-> "A2", release_date |-> "", popularity |-> 1,
       genres |-> <<[id |-> 2, name |-> "Drama"]>>],
      [title |-> "X", popularity |-> 1] }

\* The result lists of at most n entries over S; no entry is listed twice.
RECURSIVE SeqsUpTo(_, _)
SeqsUpTo(S, n) ==
    IF n = 0 THEN {<<>>}
    ELSE LET shorter == SeqsUpTo(S, n - 1)
             longest == {t \in shorter : Len(t) = n - 1}
         IN  shorter \cup {q \in {Append(s, x) : s \in longest, x \in S} :
                              \A i \in 1..(n - 1) : q[i] # q[n]}

\* What _make_tmdb_request returns for a list endpoint: None on any failure,
\* else the parsed body.
ListResponses == {None} \cup {[results |-> s] : s \in SeqsUpTo(ListRecords, MaxResults)}
DetailResponses(e) == {None} \cup DetailRecords(e)

\* The answers of the trending endpoint that the recommendation engine is
\* run over: no answer, two movies that share a genre, a record without id.
FewListResponses ==
    {None} \cup
    {[results |-> s] : s \in
        { <<[id |-> 1, title |-> "A", release_date |-> "", popularity |-> 2,
             genre_ids |-> <<1>>],
            [id |-> 2, popularity |-> 3, genre_ids |-> <<1, 2>>]>>,
          <<[title |-> "X", popularity |-> 1, genre_ids |-> <<1>>]>> }}

\* ------------------------------------------------------------------- state
VARIABLES
    movies,        \* Movie rows
    links,         \* movie-genre link rows <<movie id, genre id>>
    genres,        \* Genre rows
    interactions,  \* UserMovieInteraction rows
    nextInteraction, \* the next AutoField value of UserMovieInteraction
    cache,         \* the Django cache: key -> entry or NoEntry
    clock,         \* the instant of the latest timestamped store write
    last,          \* the latest request, its response and what it touched
    pc,            \* per worker: where its request stands
    frame,         \* per worker: the locals of its request
    users,         \* User rows, each with the names of its roles
    roles          \* Role rows (their names)

vars == <<movies, links, genres, interactions, nextInteraction, cache, clock, last,
          pc, frame, users, roles>>

TRENDING_KEY == <<"trending_movies", 0>>
DetailKey(tmdb_id) == <<"movie_detail", tmdb_id>>
CacheKeys == {TRENDING_KEY} \cup {DetailKey(e) : e \in DetailIds}
NoEntry == [py |-> "NoEntry"]

cache_get(c, key) == IF c[key] = NoEntry THEN None ELSE c[key].value
\* cache_set with the store of the entry left out
cache_set_dropped(c, key, value, timeout) == c

cache_set(c, key, value, timeout) ==
    [c EXCEPT ![key] = [value |-> value, timeout |-> timeout]]

\* ------------------------------------------------------- response helpers
\* rest_framework.response.Response: the body and the transport status.
Response(data, status_code) == [data |-> data, status_code |-> status_code]

OK_MESSAGE == "Operation successful"

success_response(data, message, status_code) ==
    Response([status |-> "success", message |-> message, data |-> data], status_code)

error_response(message, code, status_code, details) ==
    Response([status |-> "error", message |-> message, code |-> code,
              details |-> details], status_code)

\* --------------------------------------------------------- provider client
\* What the network does to one attempt besides answering with a body
\* (utils.py:31-36).
Failures == {[error |-> e] : e \in {"HTTPError", "ConnectionError", "Timeout"}}

\* _make_tmdb_request that tries once more after a failure
make_tmdb_request_retrying(answers) ==
    IF Head(answers) \notin Failures THEN [data |-> Head(answers), attempts |-> 1]
    ELSE [data |-> IF answers[2] \in Failures THEN None ELSE answers[2],
          attempts |-> 2]

\* _make_tmdb_request with the API key configured; answers[i] is what the
\* network does to the i-th attempt.  The result is the value returned and
\* the number of requests.get calls made.
make_tmdb_request(answers) ==
    [data |-> IF Head(answers) \in Failures THEN None ELSE Head(answers),
     attempts |-> 1]

get_results(data) == IF Truthy(data) THEN Get(data, "results", <<>>) ELSE <<>>

\* ------------------------------------------------------------------ upsert
MaxOf(S) == IF S = {} THEN 0 ELSE CHOOSE x \in S : \A y \in S : y <= x
uuid4(rows) == MaxOf({m.id : m \in rows}) + 1

Defaults(d) ==
    [title |-> Get(d, "title", "No Title Provided"),
     release_date |-> (IF Get(d, "release_date", "") = "" THEN NullDate
                       ELSE d.release_date),
     popularity |-> Get(d, "popularity", 0)]

\* Is there a Movie row of this external id (the lookup by tmdb_id)?
TmdbIdTaken(rows, tmdb_id) == \E m \in rows : m.tmdb_id = tmdb_id

\* UniqueViolation of a column declared without unique=True
UniqueViolation_unenforced(rows, tmdb_id) == FALSE

\* The unique=True constraint of Movie.tmdb_id: would an insert violate it?
UniqueViolation(rows, tmdb_id) == \E m \in rows : m.tmdb_id = tmdb_id

\* update_or_create as delete-and-insert: an existing row is replaced by a
\* new row of a fresh internal id
update_or_create_recreated(rows, tmdb_id, defaults, now) ==
    LET kept == {m \in rows : m.tmdb_id # tmdb_id}
        new == [id |-> uuid4(rows), tmdb_id |-> tmdb_id,
                title |-> defaults.title,
                release_date |-> defaults.release_date,
                popularity |-> defaults.popularity,
                created_at |-> now, updated_at |-> now]
    IN  [rows |-> kept \cup {new}, obj |-> new, created |-> kept = rows]

\* update_or_create as a plain create: no lookup of the existing row
update_or_create_always_create(rows, tmdb_id, defaults, now) ==
    LET new == [id |-> uuid4(rows), tmdb_id |-> tmdb_id,
                title |-> defaults.title,
                release_date |-> defaults.release_date,
                popularity |-> defaults.popularity,
                created_at |-> now, updated_at |-> now]
    IN  [rows |-> rows \cup {new}, obj |-> new, created |-> TRUE]

\* Movie.objects.update_or_create(tmdb_id=..., defaults=...) run without
\* interference, at instant now.
update_or_create(rows, tmdb_id, defaults, now) ==
    IF TmdbIdTaken(rows, tmdb_id)
    THEN LET old == CHOOSE m \in rows : m.tmdb_id = tmdb_id
             new == [old EXCEPT !.title = defaults.title,
                                !.release_date = defaults.release_date,
                                !.popularity = defaults.popularity,
                                !.updated_at = now]
         IN  [rows |-> (rows \ {old}) \cup {new}, obj |-> new, created |-> FALSE]
    ELSE LET new == [id |-> uuid4(rows), tmdb_id |-> tmdb_id,
                     title |-> defaults.title,
                     release_date |-> defaults.release_date,
                     popularity |-> defaults.popularity,
                     created_at |-> now, updated_at |-> now]
         IN  [rows |-> rows \cup {new}, obj |-> new, created |-> TRUE]

genre_ids_from_tmdb(d) ==
    LET ids == Get(d, "genre_ids", <<>>)
        pairs == Get(d, "genres", <<>>)
    IN  IF ids = <<>> /\ pairs # <<>>
        THEN [i \in 1..Len(pairs) |-> pairs[i].id]
        ELSE ids

Range(s) == {s[i] : i \in DOMAIN s}

\* genres_add without the filter on the Genre rows: every id is linked
genres_add_unfiltered(lnk, movie, ids, genreRows) ==
    lnk \cup {<<movie.id, id>> : id \in Range(ids)}

\* movie.genres.set(...) in the place of add: the links of the movie are
\* replaced by the record's
genres_add_replacing(lnk, movie, ids, genreRows) ==
    {l \in lnk : l[1] # movie.id}
        \cup {<<movie.id, g.id>> : g \in {r \in genreRows : r.id \in Range(ids)}}

\* movie.genres.add(*Genre.objects.filter(id__in=ids))
genres_add(lnk, movie, ids, genreRows) ==
    lnk \cup {<<movie.id, g.id>> : g \in {r \in genreRows : r.id \in Range(ids)}}

UsableId(d) == Truthy(d) /\ Get(d, "id", 0) # 0

\* save_movie_and_genres_to_db without the test of line 74: a payload
\* without usable id is upserted under the id it has, or 0
save_movie_and_genres_to_db_unchecked(st, d) ==
    LET uc == update_or_create(st.movies, Get(d, "id", 0), Defaults(d), st.clock + 1)
    IN  [movies |-> uc.rows,
         links |-> genres_add(st.links, uc.obj, genre_ids_from_tmdb(d), st.genres),
         genres |-> st.genres,
         clock |-> st.clock + 1,
         obj |-> uc.obj, warnings |-> 0]

\* save_movie_and_genres_to_db on store st = [movies, links, genres, clock];
\* the result is the store afterwards, the returned Movie object (or None)
\* and the number of logger.warning calls made (the one of line 75; the
\* other calls of the function are logger.info and logger.error).
save_movie_and_genres_to_db(st, d) ==
    IF ~UsableId(d)
    THEN [movies |-> st.movies, links |-> st.links, genres |-> st.genres,
          clock |-> st.clock, obj |-> None, warnings |-> 1]
    ELSE LET uc == update_or_create(st.movies, d.id, Defaults(d), st.clock + 1)
         IN  [movies |-> uc.rows,
              links |-> genres_add(st.links, uc.obj, genre_ids_from_tmdb(d), st.genres),
              genres |-> st.genres,
              clock |-> st.clock + 1,
              obj |-> uc.obj, warnings |-> 0]

Store(r) == [movies |-> r.movies, links |-> r.links, genres |-> r.genres, clock |-> r.clock]

\* The views' loop: upsert each record in order, keep the objects returned.
RECURSIVE save_all(_, _)
save_all(st, records) ==
    IF records = <<>> THEN [store |-> st, objs |-> <<>>]
    ELSE LET r == save_movie_and_genres_to_db(st, Head(records))
             rest == save_all(Store(r), Tail(records))
         IN  [store |-> rest.store,
              objs |-> IF r.obj = None THEN rest.objs ELSE <<r.obj>> \o rest.objs]

\* The number of records of a list whose upsert writes the store.
RECURSIVE Writes(_)
Writes(records) ==
    IF records = <<>> THEN 0
    ELSE (IF UsableId(Head(records)) THEN 1 ELSE 0) + Writes(Tail(records))

\* ------------------------------------------------------------ serializers
GenreSerializer(g) == [id |-> g.id, name |-> g.name]

\* MovieSerializer(obj).data: the object's columns and the genres linked to
\* it in the store at serialization time; for None, the serializer's
\* initial data (its writable fields, blank).
MovieSerializer(obj, st) ==
    IF obj = None
    THEN [title |-> "", release_date |-> NullDate]
    ELSE [id |-> obj.id, tmdb_id |-> obj.tmdb_id, title |-> obj.title,
          release_date |-> obj.release_date, popularity |-> obj.popularity,
          genres |-> {GenreSerializer(g) : g \in {r \in st.genres : <<obj.id, r.id>> \in st.links}}]

MovieSerializerMany(objs, st) ==
    JsonList([i \in 1..Len(objs) |-> MovieSerializer(objs[i], st)])

\* ------------------------------------------------------------------- views
\* The outcome of one request: its response, the store and cache it leaves,
\* and what it touched on the way.
Outcome(resp, st, c, calls, reads, writes, sets) ==
    [resp |-> resp, store |-> st, cache |-> c, providerCalls |-> calls,
     storeReads |-> reads, storeWrites |-> writes, cacheWrites |-> sets]

\* TrendingMoviesView.get without the test of the provider's answer: an
\* empty answer is saved, cached and returned like any other
TrendingMoviesView_get_untested(st, c, data) ==
    LET cached_data == cache_get(c, TRENDING_KEY)
    IN  IF Truthy(cached_data)
        THEN Outcome(success_response(cached_data, OK_MESSAGE, HTTP_200_OK),
                     st, c, 0, 0, 0, 0)
        ELSE LET tmdb_movies_data == get_results(data)
                 sv == save_all(st, tmdb_movies_data)
                 payload == MovieSerializerMany(sv.objs, sv.store)
             IN  Outcome(success_response(payload, OK_MESSAGE, HTTP_200_OK),
                         sv.store,
                         cache_set(c, TRENDING_KEY, payload, TRENDING_TIMEOUT),
                         1, Len(sv.objs), Writes(tmdb_movies_data), 1)

\* TrendingMoviesView.get; data is what the provider answers if it is asked.
TrendingMoviesView_get(st, c, data) ==
    LET cached_data == cache_get(c, TRENDING_KEY)
    IN  IF Truthy(cached_data)
        THEN Outcome(success_response(cached_data, OK_MESSAGE, HTTP_200_OK),
                     st, c, 0, 0, 0, 0)
        ELSE LET tmdb_movies_data == get_results(data)
             IN  IF tmdb_movies_data = <<>>
                 THEN Outcome(error_response("Could not fetch trending movies.",
                                             "TMDB_API_ERROR",
                                             HTTP_503_SERVICE_UNAVAILABLE, None),
                              st, c, 1, 0, 0, 0)
                 ELSE LET sv == save_all(st, tmdb_movies_data)
                          payload == MovieSerializerMany(sv.objs, sv.store)
                      IN  Outcome(success_response(payload, OK_MESSAGE, HTTP_200_OK),
                                  sv.store,
                                  cache_set(c, TRENDING_KEY, payload, TRENDING_TIMEOUT),
                                  1, Len(sv.objs), Writes(tmdb_movies_data), 1)

\* MovieDetailByTmdbIdView.get without the test of the provider's answer:
\* whatever it is goes to the upsert, the serializer and the cache
MovieDetailByTmdbIdView_get_untested(st, c, tmdb_id, data) ==
    LET cache_key == DetailKey(tmdb_id)
        cached_data == cache_get(c, cache_key)
    IN  IF Truthy(cached_data)
        THEN Outcome(success_response(cached_data, OK_MESSAGE, HTTP_200_OK),
                     st, c, 0, 0, 0, 0)
        ELSE IF TmdbIdTaken(st.movies, tmdb_id)
        THEN LET movie == CHOOSE m \in st.movies : m.tmdb_id = tmdb_id
                 payload == MovieSerializer(movie, st)
             IN  Outcome(success_response(payload, OK_MESSAGE, HTTP_200_OK),
                         st, cache_set(c, cache_key, payload, DETAIL_TIMEOUT),
                         0, 1, 0, 1)
        ELSE LET r == save_movie_and_genres_to_db(st, data)
                 payload == MovieSerializer(r.obj, Store(r))
             IN  Outcome(success_response(payload, OK_MESSAGE, HTTP_200_OK),
                         Store(r), cache_set(c, cache_key, payload, DETAIL_TIMEOUT),
                         1, 1, Writes(<<data>>), 1)

\* MovieDetailByTmdbIdView.get without the lookup in the store (lines
\* 243-251): a cache miss goes to the provider
MovieDetailByTmdbIdView_get_store_skipped(st, c, tmdb_id, data) ==
    LET cache_key == DetailKey(tmdb_id)
        cached_data == cache_get(c, cache_key)
    IN  IF Truthy(cached_data)
        THEN Outcome(success_response(cached_data, OK_MESSAGE, HTTP_200_OK),
                     st, c, 0, 0, 0, 0)
        ELSE IF ~Truthy(data)
        THEN Outcome(error_response("Movie with TMDb ID not found.",
                                    "TMDB_MOVIE_NOT_FOUND", HTTP_404_NOT_FOUND, None),
                     st, c, 1, 0, 0, 0)
        ELSE LET r == save_movie_and_genres_to_db(st, data)
                 payload == MovieSerializer(r.obj, Store(r))
             IN  Outcome(success_response(payload, OK_MESSAGE, HTTP_200_OK),
                         Store(r), cache_set(c, cache_key, payload, DETAIL_TIMEOUT),
                         1, 0, Writes(<<data>>), 1)

\* MovieDetailByTmdbIdView.get
MovieDetailByTmdbIdView_get(st, c, tmdb_id, data) ==
    LET cache_key == DetailKey(tmdb_id)
        cached_data == cache_get(c, cache_key)
    IN  IF Truthy(cached_data)
        THEN Outcome(success_response(cached_data, OK_MESSAGE, HTTP_200_OK),
                     st, c, 0, 0, 0, 0)
        ELSE IF TmdbIdTaken(st.movies, tmdb_id)
        THEN LET movie == CHOOSE m \in st.movies : m.tmdb_id = tmdb_id
                 payload == MovieSerializer(movie, st)
             IN  Outcome(success_response(payload, OK_MESSAGE, HTTP_200_OK),
                         st, cache_set(c, cache_key, payload, DETAIL_TIMEOUT),
                         0, 1, 0, 1)
        ELSE IF ~Truthy(data)
        THEN Outcome(error_response("Movie with TMDb ID not found.",
                                    "TMDB_MOVIE_NOT_FOUND", HTTP_404_NOT_FOUND, None),
                     st, c, 1, 1, 0, 0)
        ELSE LET r == save_movie_and_genres_to_db(st, data)
                 payload == MovieSerializer(r.obj, Store(r))
             IN  Outcome(success_response(payload, OK_MESSAGE, HTTP_200_OK),
                         Store(r), cache_set(c, cache_key, payload, DETAIL_TIMEOUT),
                         1, 1, Writes(<<data>>), 1)

SERVER_ERROR(message) ==
    error_response(message, "SERVER_ERROR", HTTP_500_INTERNAL_SERVER_ERROR, None)

\* MovieDetailView.get.  get_object_or_404 raises Http404 inside the try:
\* Http404 is not Movie.DoesNotExist, so the clause that answers it is
\* "except Exception".
MovieDetailView_get(st, c, movie_id) ==
    IF ~\E m \in st.movies : m.id = movie_id
    THEN Outcome(SERVER_ERROR("An unexpected error occurred while fetching movie details."),
                 st, c, 0, 1, 0, 0)
    ELSE LET movie == CHOOSE m \in st.movies : m.id = movie_id
         IN  Outcome(success_response(MovieSerializer(movie, st), OK_MESSAGE, HTTP_200_OK),
                     st, c, 0, 1, 0, 0)

\* MovieRecommendationsView.get with the empty answer of the provider
\* reported the way the trending path reports it
MovieRecommendationsView_get_unavailable(st, c, movie_id, data) ==
    IF ~\E m \in st.movies : m.id = movie_id
    THEN Outcome(SERVER_ERROR("An unexpected error occurred while fetching recommendations."),
                 st, c, 0, 1, 0, 0)
    ELSE LET tmdb_recommendations_data == get_results(data)
         IN  IF tmdb_recommendations_data = <<>>
             THEN Outcome(error_response("Could not fetch recommendations.",
                                         "TMDB_API_ERROR",
                                         HTTP_503_SERVICE_UNAVAILABLE, None),
                          st, c, 1, 1, 0, 0)
             ELSE LET sv == save_all(st, tmdb_recommendations_data)
                  IN  Outcome(success_response(MovieSerializerMany(sv.objs, sv.store),
                                               OK_MESSAGE, HTTP_200_OK),
                              sv.store, c, 1, 1 + Len(sv.objs),
                              Writes(tmdb_recommendations_data), 0)

\* MovieRecommendationsView.get.  get_object_or_404 raises Http404, which is
\* not Movie.DoesNotExist: the handler that answers it is "except Exception".
MovieRecommendationsView_get(st, c, movie_id, data) ==
    IF ~\E m \in st.movies : m.id = movie_id
    THEN Outcome(SERVER_ERROR("An unexpected error occurred while fetching recommendations."),
                 st, c, 0, 1, 0, 0)
    ELSE LET tmdb_recommendations_data == get_results(data)
         IN  IF tmdb_recommendations_data = <<>>
             THEN Outcome(success_response(JsonList(<<>>),
                                           "No recommendations found for this movie.",
                                           HTTP_200_OK),
                          st, c, 1, 1, 0, 0)
             ELSE LET sv == save_all(st, tmdb_recommendations_data)
                  IN  Outcome(success_response(MovieSerializerMany(sv.objs, sv.store),
                                               OK_MESSAGE, HTTP_200_OK),
                              sv.store, c, 1, 1 + Len(sv.objs),
                              Writes(tmdb_recommendations_data), 0)

\* str.strip(): drop leading and trailing whitespace.
Whitespace == {" ", "\t", "\n"}
RECURSIVE lstrip(_)
lstrip(s) == IF s # <<>> /\ Head(s) \in Whitespace THEN lstrip(Tail(s)) ELSE s
RECURSIVE rstrip(_)
rstrip(s) ==
    IF s # <<>> /\ s[Len(s)] \in Whitespace THEN rstrip(SubSeq(s, 1, Len(s) - 1)) ELSE s
strip(s) == rstrip(lstrip(s))

\* request.query_params of a search request: strings are sequences of
\* characters; the first has no 'query' parameter at all.
QueryParams ==
    { [page |-> <<"1">>], [query |-> <<>>], [query |-> <<" ", "\t">>],
      [query |-> <<" ", "a", " ">>] }

\* search_query without the .strip()
search_query_unstripped(query_params) == Get(query_params, "query", <<>>)

search_query(query_params) == strip(Get(query_params, "query", <<>>))

\* MovieSearchView.get
MovieSearchView_get(st, c, query_params, data) ==
    LET query == search_query(query_params)
    IN  IF query = <<>>
        THEN Outcome(error_response("Search query parameter is required.",
                                    "MISSING_QUERY", HTTP_400_BAD_REQUEST, None),
                     st, c, 0, 0, 0, 0)
        ELSE LET tmdb_search_results == get_results(data)
             IN  IF tmdb_search_results = <<>>
                 THEN Outcome(success_response(JsonList(<<>>),
                                               "No movies found for your query.",
                                               HTTP_200_OK),
                              st, c, 1, 0, 0, 0)
                 ELSE LET sv == save_all(st, tmdb_search_results)
                      IN  Outcome(success_response(MovieSerializerMany(sv.objs, sv.store),
                                                   OK_MESSAGE, HTTP_200_OK),
                                  sv.store, c, 1, Len(sv.objs),
                                  Writes(tmdb_search_results), 0)

\* ------------------------------------------------------ interaction store
\* UniqueTogetherViolation of a model without the unique_together constraint
UniqueTogetherViolation_unenforced(rows, user, movie, interaction_type) == FALSE

\* The unique_together constraint of UserMovieInteraction.
UniqueTogetherViolation(rows, user, movie, interaction_type) ==
    \E i \in rows : /\ i.user = user
                    /\ i.movie = movie
                    /\ i.interaction_type = interaction_type

\* UserMovieInteractionSerializer.is_valid: the movie is the primary key of a
\* Movie row and the type is one of the choices.  (The serializer has no
\* user field, so it builds no validator for the unique_together triple.)
is_valid(movieRows, data) ==
    /\ \E m \in movieRows : m.id = data.movie
    /\ data.interaction_type \in InteractionType

UserMovieInteractionSerializer(i, movieRows) ==
    [id |-> i.id, movie |-> i.movie,
     movie_title |-> (CHOOSE m \in movieRows : m.id = i.movie).title,
     interaction_type |-> i.interaction_type]

\* UserInteractionsView.post
UserInteractionsView_post(rows, nextId, movieRows, user, data) ==
    IF ~is_valid(movieRows, data)
    THEN [resp |-> error_response("Invalid data provided.", "VALIDATION_ERROR",
                                  HTTP_400_BAD_REQUEST, [errors |-> "invalid"]),
          interactions |-> rows, nextInteraction |-> nextId]
    ELSE IF UniqueTogetherViolation(rows, user, data.movie, data.interaction_type)
    THEN [resp |-> error_response("This interaction already exists.",
                                  "DUPLICATE_INTERACTION", HTTP_409_CONFLICT, None),
          interactions |-> rows, nextInteraction |-> nextId]
    ELSE LET row == [id |-> nextId, user |-> user, movie |-> data.movie,
                     interaction_type |-> data.interaction_type]
         IN  [resp |-> success_response(UserMovieInteractionSerializer(row, movieRows),
                                        "Interaction saved.", HTTP_201_CREATED),
              interactions |-> rows \cup {row}, nextInteraction |-> nextId + 1]

\* What the framework answers when a view raises Http404.
NOT_FOUND == Response([detail |-> "Not found."], HTTP_404_NOT_FOUND)

\* The delete view with the user filter of the lookup left out
UserInteractionDetailView_delete_any_owner(rows, user, interaction_id) ==
    IF \E i \in rows : i.id = interaction_id
    THEN [resp |-> success_response(None, "Interaction deleted successfully.",
                                    HTTP_204_NO_CONTENT),
          interactions |-> {i \in rows : i.id # interaction_id}]
    ELSE [resp |-> NOT_FOUND, interactions |-> rows]

\* UserInteractionDetailView.delete
UserInteractionDetailView_delete(rows, user, interaction_id) ==
    IF \E i \in rows : i.id = interaction_id /\ i.user = user
    THEN [resp |-> success_response(None, "Interaction deleted successfully.",
                                    HTTP_204_NO_CONTENT),
          interactions |-> {i \in rows : i.id # interaction_id}]
    ELSE [resp |-> NOT_FOUND, interactions |-> rows]

\* --------------------------------------------------- recommendation engine
liked_genres_ids(rows, lnk, user) ==
    {l[2] : l \in {k \in lnk : \E i \in rows : /\ i.user = user
                                                /\ i.interaction_type = LIKED
                                                /\ i.movie = k[1]}}

\* interacted_movie_ids restricted to the LIKED interactions
interacted_movie_ids_liked_only(rows, user) ==
    {i.movie : i \in {j \in rows : j.user = user /\ j.interaction_type = LIKED}}

interacted_movie_ids(rows, user) == {i.movie : i \in {j \in rows : j.user = user}}

\* Movie.objects.filter(genres__id__in=...).exclude(id__in=...).distinct()
recommended_candidates(st, rows, user) ==
    {m \in st.movies :
        /\ \E g \in liked_genres_ids(rows, st.links, user) : <<m.id, g>> \in st.links
        /\ m.id \notin interacted_movie_ids(rows, user)}

Injective(s) == \A i, j \in DOMAIN s : s[i] = s[j] => i = j

\* .order_by('-popularity'): the orders the database may return (rows of
\* equal popularity come in any order).
order_by_popularity(S) ==
    {s \in [1..Cardinality(S) -> S] :
        /\ Injective(s)
        /\ \A i, j \in DOMAIN s : i < j => s[i].popularity >= s[j].popularity}

\* The slice [:20] left out
Take_untruncated(s, n) == s

Take(s, n) == IF Len(s) <= n THEN s ELSE SubSeq(s, 1, n)

PERSONALIZED == "Personalized recommendations generated."
FALLBACK == "No specific preferences yet, showing trending movies."

\* UserRecommendationsView.get with the personalized answer stored in the
\* cache
UserRecommendationsView_get_cached(st, c, rows, user, data, ordered) ==
    IF liked_genres_ids(rows, st.links, user) = {}
    THEN LET trending == TrendingMoviesView_get(st, c, data)
         IN  Outcome(success_response(trending.resp.data, FALLBACK, HTTP_200_OK),
                     trending.store, trending.cache, trending.providerCalls,
                     1 + trending.storeReads, trending.storeWrites,
                     trending.cacheWrites)
    ELSE LET payload == MovieSerializerMany(Take(ordered, RECOMMENDATION_LIMIT), st)
         IN  Outcome(success_response(payload, PERSONALIZED, HTTP_200_OK),
                     st, cache_set(c, TRENDING_KEY, payload, TRENDING_TIMEOUT),
                     0, 3, 0, 1)

\* UserRecommendationsView.get; ordered is the order the database returns
\* the candidates in, data what the provider answers if it is asked.
UserRecommendationsView_get(st, c, rows, user, data, ordered) ==
    IF liked_genres_ids(rows, st.links, user) = {}
    THEN LET trending == TrendingMoviesView_get(st, c, data)
         IN  Outcome(success_response(trending.resp.data, FALLBACK, HTTP_200_OK),
                     trending.store, trending.cache, trending.providerCalls,
                     1 + trending.storeReads, trending.storeWrites,
                     trending.cacheWrites)
    ELSE Outcome(success_response(
                     MovieSerializerMany(Take(ordered, RECOMMENDATION_LIMIT), st),
                     PERSONALIZED, HTTP_200_OK),
                 st, c, 0, 3, 0, 0)


\* ----------------------------------------------------------------- actions
CurrentStore == [movies |-> movies, links |-> links, genres |-> genres, clock |-> clock]

\* A request has run: the store and the cache are what it left, and last
\* describes it.
Commit(op, arg, user, data, outcome) ==
    LET out == outcome
    IN  /\ out.store.clock <= MaxClock
        /\ out.providerCalls = 0 => data = None   \* a provider not asked answers nothing
        /\ movies' = out.store.movies
        /\ links' = out.store.links
        /\ genres' = out.store.genres
        /\ clock' = out.store.clock
        /\ cache' = out.cache
        /\ last' = [op |-> op, arg |-> arg, user |-> user, resp |-> out.resp,
                    entry |-> IF arg.key \in CacheKeys THEN cache[arg.key] ELSE NoEntry,
                    providerCalls |-> out.providerCalls,
                    storeReads |-> out.storeReads,
                    storeWrites |-> out.storeWrites,
                    cacheWrites |-> out.cacheWrites]
        /\ UNCHANGED <<pc, frame, users, roles>>

NoKey == <<"", 0>>
Anonymous == "anonymous"

TrendingRequest(data) ==
    /\ Commit("trending", [key |-> TRENDING_KEY], Anonymous, data,
              TrendingMoviesView_get(CurrentStore, cache, data))
    /\ UNCHANGED <<interactions, nextInteraction>>

DetailByTmdbIdRequest(tmdb_id, data) ==
    /\ Commit("detail_by_tmdb_id",
              [key |-> DetailKey(tmdb_id), tmdb_id |-> tmdb_id], Anonymous, data,
              MovieDetailByTmdbIdView_get(CurrentStore, cache, tmdb_id, data))
    /\ UNCHANGED <<interactions, nextInteraction>>

MovieDetailRequest(movie_id) ==
    /\ Commit("movie_detail", [key |-> NoKey, movie_id |-> movie_id], Anonymous, None,
              MovieDetailView_get(CurrentStore, cache, movie_id))
    /\ UNCHANGED <<interactions, nextInteraction>>

MovieRecommendationsRequest(movie_id, data) ==
    /\ Commit("movie_recommendations", [key |-> NoKey, movie_id |-> movie_id],
              Anonymous, data,
              MovieRecommendationsView_get(CurrentStore, cache, movie_id, data))
    /\ UNCHANGED <<interactions, nextInteraction>>

SearchRequest(query_params, data) ==
    /\ Commit("search", [key |-> NoKey, query_params |-> query_params],
              Anonymous, data,
              MovieSearchView_get(CurrentStore, cache, query_params, data))
    /\ UNCHANGED <<interactions, nextInteraction>>

\* seed_initial_genres (manage.py seed_genres): update_or_create each genre
\* the provider lists.
seed_initial_genres(genreRows, data) ==
    IF Truthy(data) /\ Get(data, "genres", <<>>) # <<>>
    THEN {g \in genreRows : \A i \in DOMAIN data.genres : data.genres[i].id # g.id}
         \cup {[id |-> data.genres[i].id, name |-> data.genres[i].name] : i \in DOMAIN data.genres}
    ELSE genreRows

SeedGenres ==
    \E data \in {None} \cup {[genres |-> l] : l \in GenreLists} :
        /\ genres' = seed_initial_genres(genres, data)
        /\ UNCHANGED <<movies, links, interactions, nextInteraction, cache, clock, last,
                       pc, frame, users, roles>>

\* Expire over a cache that is the system of record: the rows go with the
\* entry
Expire_with_rows ==
    \E key \in CacheKeys :
        /\ cache[key] # NoEntry
        /\ cache' = [cache EXCEPT ![key] = NoEntry]
        /\ movies' = {}
        /\ links' = {}
        /\ UNCHANGED <<genres, interactions, nextInteraction, clock, last, pc, frame,
                       users, roles>>

\* A cache entry's timeout elapses (or the cache is flushed of it).
Expire ==
    \E key \in CacheKeys :
        /\ cache[key] # NoEntry
        /\ cache' = [cache EXCEPT ![key] = NoEntry]
        /\ UNCHANGED <<movies, links, genres, interactions, nextInteraction, clock, last,
                       pc, frame, users, roles>>

\* The accounts: one made by createsuperuser (no role), the others by
\* registration, which gives the role 'user' (serializers.py:27-28).
USER == "user"
ADMIN == "admin"
RegisteredUsers ==
    {[id |-> "u1", is_superuser |-> TRUE, roles |-> {}]}
        \cup {[id |-> u, is_superuser |-> FALSE, roles |-> {USER}] : u \in Users \ {"u1"}}

\* The workers that serve requests concurrently, and a worker at rest.
Workers == {"w1", "w2"}
Idle ==
    [op |-> "none", tmdb_id |-> 0, data |-> None, obj |-> None, payload |-> None,
     user |-> Anonymous, post |-> None, resp |-> Response(None, 0),
     providerCalls |-> 0, upserted |-> FALSE]

NoRequest ==
    [op |-> "none", arg |-> [key |-> NoKey], user |-> Anonymous,
     resp |-> Response(None, 0), entry |-> NoEntry,
     providerCalls |-> 0, storeReads |-> 0, storeWrites |-> 0, cacheWrites |-> 0]

Init ==
    /\ movies = {}
    /\ links = {}
    /\ genres = {}
    /\ interactions = {}
    /\ nextInteraction = 1
    /\ cache = [key \in CacheKeys |-> NoEntry]
    /\ clock = 0
    /\ last = NoRequest
    /\ pc = [w \in Workers |-> "idle"]
    /\ frame = [w \in Workers |-> Idle]
    /\ users = RegisteredUsers
    /\ roles = {USER}

\* Internal ids a client may name: those of the rows, and one of no row.
MovieIds == {m.id : m \in movies} \cup {uuid4(movies)}

\* The provider answers that leave the clock within its bound.
InTime(S) == {data \in S : clock + Writes(get_results(data)) <= MaxClock}

Next ==
    \/ \E data \in InTime(ListResponses) : TrendingRequest(data)
    \/ \E tmdb_id \in DetailIds : \E data \in DetailResponses(tmdb_id) :
          DetailByTmdbIdRequest(tmdb_id, data)
    \/ \E movie_id \in MovieIds : MovieDetailRequest(movie_id)
    \/ \E movie_id \in MovieIds, data \in InTime(ListResponses) :
          MovieRecommendationsRequest(movie_id, data)
    \/ \E query_params \in QueryParams, data \in InTime(ListResponses) :
          SearchRequest(query_params, data)
    \/ SeedGenres
    \/ Expire

Spec == Init /\ [][Next]_vars

UserRecommendationsRequest(user, data, ordered) ==
    /\ ordered \in order_by_popularity(recommended_candidates(CurrentStore, interactions, user))
    /\ Commit("user_recommendations", [key |-> TRENDING_KEY], user, data,
              UserRecommendationsView_get(CurrentStore, cache, interactions, user,
                                          data, ordered))
    /\ UNCHANGED <<interactions, nextInteraction>>

\* A request of the interaction store has run.
CommitInteraction(op, arg, user, out) ==
    /\ interactions' = out.interactions
    /\ last' = [op |-> op, arg |-> arg, user |-> user, resp |-> out.resp,
                entry |-> NoEntry, providerCalls |-> 0, storeReads |-> 1,
                storeWrites |-> IF out.interactions = interactions THEN 0 ELSE 1,
                cacheWrites |-> 0]
    /\ UNCHANGED <<movies, links, genres, cache, clock, pc, frame, users, roles>>

CreateInteraction(user, data) ==
    LET out == UserInteractionsView_post(interactions, nextInteraction, movies, user, data)
    IN  /\ out.nextInteraction <= MaxInteractions + 1
        /\ nextInteraction' = out.nextInteraction
        /\ CommitInteraction("create_interaction",
                             [key |-> NoKey, movie |-> data.movie,
                              interaction_type |-> data.interaction_type], user, out)

DeleteInteraction(user, interaction_id) ==
    /\ CommitInteraction("delete_interaction",
                         [key |-> NoKey, interaction_id |-> interaction_id], user,
                         UserInteractionDetailView_delete(interactions, user, interaction_id))
    /\ UNCHANGED nextInteraction

\* The bodies a client may post to the interaction endpoint.
InteractionData == [movie : MovieIds, interaction_type : InteractionType]

\* The recommendation engine and the interaction store, over a catalogue
\* filled by the trending path.
NextUser ==
    \/ \E data \in InTime(FewListResponses) : TrendingRequest(data)
    \/ \E user \in Users : \E data \in InteractionData : CreateInteraction(user, data)
    \/ \E user \in Users : \E interaction_id \in 1..nextInteraction :
          DeleteInteraction(user, interaction_id)
    \/ \E user \in Users : \E data \in InTime(FewListResponses) :
          \E ordered \in order_by_popularity(
                            recommended_candidates(CurrentStore, interactions, user)) :
              UserRecommendationsRequest(user, data, ordered)

\* The state after construction and manage.py seed_genres.
InitUser ==
    /\ movies = {}
    /\ links = {}
    /\ genres \in {seed_initial_genres({}, [genres |-> l]) : l \in GenreLists}
    /\ interactions = {}
    /\ nextInteraction = 1
    /\ cache = [key \in CacheKeys |-> NoEntry]
    /\ clock = 0
    /\ last = NoRequest
    /\ pc = [w \in Workers |-> "idle"]
    /\ frame = [w \in Workers |-> Idle]
    /\ users = RegisteredUsers
    /\ roles = {USER}

SpecUser == InitUser /\ [][NextUser]_vars

\* ------------------------------------------ the engine over a full catalogue
\* A catalogue that earlier synchronizations filled: row i has external id
\* i and a popularity all its own; every row is linked to genre 1 and the
\* rows of even id to genre 2 as well.
Catalogue(n) ==
    {[id |-> i, tmdb_id |-> i, title |-> "T", release_date |-> NullDate,
      popularity |-> (i * 7) % 23, created_at |-> 1, updated_at |-> 1] : i \in 1..n}

CatalogueLinks(n) ==
    {<<i, 1>> : i \in 1..n} \cup {<<i, 2>> : i \in {j \in 1..n : j % 2 = 0}}

\* .order_by('-popularity') over rows of distinct popularity: the one order.
RECURSIVE SortDesc(_)
SortDesc(S) ==
    IF S = {} THEN <<>>
    ELSE LET top == CHOOSE x \in S : \A y \in S : y.popularity <= x.popularity
         IN  <<top>> \o SortDesc(S \ {top})

\* The bodies posted: a movie of genre 1 and a movie of genres 1 and 2.
EngineData == [movie : {1, 2}, interaction_type : InteractionType]

InitEngine ==
    /\ \E n \in RECOMMENDATION_LIMIT..MaxCatalogue :
          /\ movies = Catalogue(n)
          /\ links = CatalogueLinks(n)
    /\ genres = seed_initial_genres({}, [genres |-> <<[id |-> 1, name |-> "Action"],
                                                      [id |-> 2, name |-> "Drama"]>>])
    /\ interactions = {}
    /\ nextInteraction = 1
    /\ cache = [key \in CacheKeys |-> NoEntry]
    /\ clock = 1
    /\ last = NoRequest
    /\ pc = [w \in Workers |-> "idle"]
    /\ frame = [w \in Workers |-> Idle]
    /\ users = RegisteredUsers
    /\ roles = {USER}

NextEngine ==
    \/ \E user \in Users : \E data \in EngineData : CreateInteraction(user, data)
    \/ \E user \in Users : \E interaction_id \in 1..nextInteraction :
          DeleteInteraction(user, interaction_id)
    \/ \E user \in Users :
          UserRecommendationsRequest(
              user, None,
              SortDesc(recommended_candidates(CurrentStore, interactions, user)))

SpecEngine == InitEngine /\ [][NextEngine]_vars

\* ------------------------------------------- requests over the network
\* The requests with the provider client between the view and the network:
\* the network's answers to a first and a second attempt are the input, and
\* providerCalls counts the requests.get calls made.
ListBodies == FewListResponses \ {None}
ListAnswers == (Failures \cup ListBodies) \X (Failures \cup ListBodies)
DetailAnswers(e) ==
    (Failures \cup DetailRecords(e)) \X (Failures \cup DetailRecords(e))

OverNetwork(out, r) == [out EXCEPT !.providerCalls = @ * r.attempts]

TrendingOverNetwork(answers) ==
    LET r == make_tmdb_request(answers)
    IN  /\ Commit("trending", [key |-> TRENDING_KEY, answers |-> answers],
                  Anonymous, r.data,
                  OverNetwork(TrendingMoviesView_get(CurrentStore, cache, r.data), r))
        /\ UNCHANGED <<interactions, nextInteraction>>

DetailOverNetwork(tmdb_id, answers) ==
    LET r == make_tmdb_request(answers)
    IN  /\ Commit("detail_by_tmdb_id",
                  [key |-> DetailKey(tmdb_id), tmdb_id |-> tmdb_id,
                   answers |-> answers], Anonymous, r.data,
                  OverNetwork(MovieDetailByTmdbIdView_get(CurrentStore, cache,
                                                          tmdb_id, r.data), r))
        /\ UNCHANGED <<interactions, nextInteraction>>

MovieRecommendationsOverNetwork(movie_id, answers) ==
    LET r == make_tmdb_request(answers)
    IN  /\ Commit("movie_recommendations",
                  [key |-> NoKey, movie_id |-> movie_id, answers |-> answers],
                  Anonymous, r.data,
                  OverNetwork(MovieRecommendationsView_get(CurrentStore, cache,
                                                           movie_id, r.data), r))
        /\ UNCHANGED <<interactions, nextInteraction>>

SearchOverNetwork(query_params, answers) ==
    LET r == make_tmdb_request(answers)
    IN  /\ Commit("search",
                  [key |-> NoKey, query_params |-> query_params,
                   answers |-> answers], Anonymous, r.data,
                  OverNetwork(MovieSearchView_get(CurrentStore, cache,
                                                  query_params, r.data), r))
        /\ UNCHANGED <<interactions, nextInteraction>>

UserRecommendationsOverNetwork(user, answers, ordered) ==
    LET r == make_tmdb_request(answers)
    IN  /\ Commit("user_recommendations",
                  [key |-> TRENDING_KEY, answers |-> answers], user, r.data,
                  OverNetwork(UserRecommendationsView_get(CurrentStore, cache,
                                  interactions, user, r.data, ordered), r))
        /\ UNCHANGED <<interactions, nextInteraction>>

NextProvider ==
    \/ \E answers \in ListAnswers : TrendingOverNetwork(answers)
    \/ \E tmdb_id \in DetailIds : \E answers \in DetailAnswers(tmdb_id) :
          DetailOverNetwork(tmdb_id, answers)
    \/ \E movie_id \in MovieIds : \E answers \in ListAnswers :
          MovieRecommendationsOverNetwork(movie_id, answers)
    \/ \E query_params \in QueryParams : \E answers \in ListAnswers :
          SearchOverNetwork(query_params, answers)
    \/ \E user \in Users : \E answers \in ListAnswers :
          \E ordered \in order_by_popularity(
                            recommended_candidates(CurrentStore, interactions, user)) :
              UserRecommendationsOverNetwork(user, answers, ordered)

SpecProvider == InitUser /\ [][NextProvider]_vars

\* ------------------------------------------------------- admin endpoints
\* permissions.IsAdminUser.has_permission for an authenticated user; views.py
\* imports it at line 22 and rebinds the name at line 443.
permissions_IsAdminUser(user) == ADMIN \in user.roles

\* The class IsAdminUser of views.py:443-448, for an authenticated user.
IsAdminUser(user) == user.is_superuser

\* permission_classes = [IsAdminUser] of the three admin views: the name is
\* looked up when the class body runs, after line 443.
AdminViews == {"admin_user_list", "admin_delete_user", "admin_assign_role"}
has_permission(view, user) == IsAdminUser(user)

\* What the framework answers when a permission refuses an authenticated
\* user.
PERMISSION_DENIED ==
    Response([detail |-> "You do not have permission to perform this action."],
             HTTP_403_FORBIDDEN)

UserIds(userRows) == {u.id : u \in userRows}
UserRow(userRows, id) == CHOOSE u \in userRows : u.id = id

AdminUserSerializer(u) == [id |-> u.id, roles |-> u.roles]

\* AdminUserListView.get: the users by username
AdminUserListView_get(userRows, roleRows, interactionRows) ==
    LET Present(id) == id \in UserIds(userRows)
        ordered == SelectSeq(<<"u1", "u2">>, Present)
    IN  [resp |-> success_response(
                      JsonList([i \in DOMAIN ordered |->
                                   AdminUserSerializer(UserRow(userRows, ordered[i]))]),
                      OK_MESSAGE, HTTP_200_OK),
         users |-> userRows, roles |-> roleRows, interactions |-> interactionRows]

\* AdminUserDetailView.delete with the interactions' user key declared
\* on_delete=DO_NOTHING on a store that does not check it
AdminUserDetailView_delete_no_cascade(userRows, roleRows, interactionRows, request_user, user_id) ==
    IF user_id \notin UserIds(userRows)
    THEN [resp |-> NOT_FOUND,
          users |-> userRows, roles |-> roleRows, interactions |-> interactionRows]
    ELSE IF user_id = request_user
    THEN [resp |-> error_response("You cannot delete your own admin account.",
                                  "SELF_DELETE_FORBIDDEN", HTTP_403_FORBIDDEN, None),
          users |-> userRows, roles |-> roleRows, interactions |-> interactionRows]
    ELSE [resp |-> success_response(None, "User deleted successfully.",
                                    HTTP_204_NO_CONTENT),
          users |-> {u \in userRows : u.id # user_id},
          roles |-> roleRows,
          interactions |-> interactionRows]

\* AdminUserDetailView.delete; user.delete() takes the user's interactions
\* along (on_delete=CASCADE, models.py:59) and its role links.
AdminUserDetailView_delete(userRows, roleRows, interactionRows, request_user, user_id) ==
    IF user_id \notin UserIds(userRows)
    THEN [resp |-> NOT_FOUND,
          users |-> userRows, roles |-> roleRows, interactions |-> interactionRows]
    ELSE IF user_id = request_user
    THEN [resp |-> error_response("You cannot delete your own admin account.",
                                  "SELF_DELETE_FORBIDDEN", HTTP_403_FORBIDDEN, None),
          users |-> userRows, roles |-> roleRows, interactions |-> interactionRows]
    ELSE [resp |-> success_response(None, "User deleted successfully.",
                                    HTTP_204_NO_CONTENT),
          users |-> {u \in userRows : u.id # user_id},
          roles |-> roleRows,
          interactions |-> {i \in interactionRows : i.user # user_id}]

\* AssignRoleSerializer.is_valid: role_name is required and not blank.
AssignRoleSerializer_is_valid(data) == data.role_name # ""

\* AdminRoleAssignmentView.post
AdminRoleAssignmentView_post(userRows, roleRows, interactionRows, data) ==
    IF ~AssignRoleSerializer_is_valid(data)
    THEN [resp |-> error_response("Invalid role assignment data.", "VALIDATION_ERROR",
                                  HTTP_400_BAD_REQUEST, [errors |-> "invalid"]),
          users |-> userRows, roles |-> roleRows, interactions |-> interactionRows]
    ELSE IF data.user_id \notin UserIds(userRows)
    THEN [resp |-> error_response("User not found.", "USER_NOT_FOUND",
                                  HTTP_404_NOT_FOUND, None),
          users |-> userRows, roles |-> roleRows, interactions |-> interactionRows]
    ELSE LET user == UserRow(userRows, data.user_id)
         IN  [resp |-> success_response([user |-> user.id, role |-> data.role_name],
                                        "Role assigned", HTTP_200_OK),
              users |-> (userRows \ {user})
                            \cup {[user EXCEPT !.roles = @ \cup {data.role_name}]},
              roles |-> roleRows \cup {data.role_name},
              interactions |-> interactionRows]

\* A request of an admin endpoint by an authenticated user has run: the
\* view's permission is checked first.
AdminRequest(view, arg, user, outcome) ==
    LET out == IF has_permission(view, UserRow(users, user)) THEN outcome
               ELSE [resp |-> PERMISSION_DENIED, users |-> users, roles |-> roles,
                     interactions |-> interactions]
    IN  /\ users' = out.users
        /\ roles' = out.roles
        /\ interactions' = out.interactions
        /\ last' = [op |-> view, arg |-> arg, user |-> user, resp |-> out.resp,
                    entry |-> NoEntry, providerCalls |-> 0, storeReads |-> 1,
                    storeWrites |-> Cardinality(users \ out.users)
                                      + Cardinality(interactions \ out.interactions)
                                      + Cardinality(out.roles \ roles),
                    cacheWrites |-> 0]
        /\ UNCHANGED <<movies, links, genres, nextInteraction, cache, clock, pc, frame>>

AdminUserListRequest(user) ==
    AdminRequest("admin_user_list", [key |-> NoKey], user,
                 AdminUserListView_get(users, roles, interactions))

AdminUserDeleteRequest(user, user_id) ==
    AdminRequest("admin_delete_user", [key |-> NoKey, user_id |-> user_id], user,
                 AdminUserDetailView_delete(users, roles, interactions, user, user_id))

AdminRoleAssignmentRequest(user, data) ==
    AdminRequest("admin_assign_role",
                 [key |-> NoKey, user_id |-> data.user_id, role_name |-> data.role_name],
                 user, AdminRoleAssignmentView_post(users, roles, interactions, data))

\* The user ids a client may name: those of the accounts, and one of no row.
NamedUserIds == Users \cup {"u0"}
AssignRoleData == [user_id : NamedUserIds, role_name : {ADMIN, ""}]

\* The requests of authenticated users: the admin endpoints and the
\* interaction store, over a catalogue of one movie.
InitAdmin ==
    /\ movies = Catalogue(1)
    /\ links = CatalogueLinks(1)
    /\ genres = seed_initial_genres({}, [genres |-> <<[id |-> 1, name |-> "Action"],
                                                      [id |-> 2, name |-> "Drama"]>>])
    /\ interactions = {}
    /\ nextInteraction = 1
    /\ cache = [key \in CacheKeys |-> NoEntry]
    /\ clock = 1
    /\ last = NoRequest
    /\ pc = [w \in Workers |-> "idle"]
    /\ frame = [w \in Workers |-> Idle]
    /\ users = RegisteredUsers
    /\ roles = {USER}

NextAdmin ==
    \/ \E user \in UserIds(users) : AdminUserListRequest(user)
    \/ \E user \in UserIds(users) : \E user_id \in NamedUserIds :
          AdminUserDeleteRequest(user, user_id)
    \/ \E user \in UserIds(users) : \E data \in AssignRoleData :
          AdminRoleAssignmentRequest(user, data)
    \/ \E user \in UserIds(users) : \E data \in InteractionData :
          CreateInteraction(user, data)
    \/ \E user \in UserIds(users) : \E interaction_id \in 1..nextInteraction :
          DeleteInteraction(user, interaction_id)

SpecAdmin == InitAdmin /\ [][NextAdmin]_vars

\* ------------------------------------------------- requests step by step
\* Two workers serve detail-by-external-id and create-interaction requests;
\* every access to the cache, the store and the provider is a step of its
\* own, so that the steps of two requests interleave.
Goto(w, label, f) ==
    /\ pc' = [pc EXCEPT ![w] = label]
    /\ frame' = [frame EXCEPT ![w] = f]
    /\ UNCHANGED <<users, roles>>

Respond(w, f, resp) == Goto(w, "done", [f EXCEPT !.resp = resp])

\* MovieDetailByTmdbIdView.get: cache.get
DetailCacheGet(w, tmdb_id) ==
    /\ pc[w] = "idle"
    /\ LET cached_data == cache_get(cache, DetailKey(tmdb_id))
           f == [Idle EXCEPT !.op = "detail_by_tmdb_id", !.tmdb_id = tmdb_id]
       IN  IF Truthy(cached_data)
           THEN Respond(w, f, success_response(cached_data, OK_MESSAGE, HTTP_200_OK))
           ELSE Goto(w, "detail_db", f)
    /\ UNCHANGED <<movies, links, genres, interactions, nextInteraction, cache, clock, last>>

\* Movie.objects.get(tmdb_id=tmdb_id) and the serialization of the row
DetailDbGet(w) ==
    /\ pc[w] = "detail_db"
    /\ IF TmdbIdTaken(movies, frame[w].tmdb_id)
       THEN LET movie == CHOOSE m \in movies : m.tmdb_id = frame[w].tmdb_id
            IN  Goto(w, "detail_cache_set",
                     [frame[w] EXCEPT !.obj = movie,
                                      !.payload = MovieSerializer(movie, CurrentStore)])
       ELSE Goto(w, "detail_fetch", frame[w])
    /\ UNCHANGED <<movies, links, genres, interactions, nextInteraction, cache, clock, last>>

\* get_tmdb_movie_details, and the first test of save_movie_and_genres_to_db
DetailFetch(w, data) ==
    /\ pc[w] = "detail_fetch"
    /\ LET f == [frame[w] EXCEPT !.data = data, !.providerCalls = 1]
       IN  IF ~Truthy(data)
           THEN Respond(w, f, error_response("Movie with TMDb ID not found.",
                                             "TMDB_MOVIE_NOT_FOUND",
                                             HTTP_404_NOT_FOUND, None))
           ELSE IF ~UsableId(data)
           THEN Goto(w, "detail_serialize", f)
           ELSE Goto(w, "upsert_get", f)
    /\ UNCHANGED <<movies, links, genres, interactions, nextInteraction, cache, clock, last>>

\* update_or_create: the lookup of the row
UpsertGet(w) ==
    /\ pc[w] = "upsert_get"
    /\ IF TmdbIdTaken(movies, frame[w].data.id)
       THEN Goto(w, "upsert_save",
                 [frame[w] EXCEPT !.obj = CHOOSE m \in movies : m.tmdb_id = frame[w].data.id])
       ELSE Goto(w, "upsert_insert", frame[w])
    /\ UNCHANGED <<movies, links, genres, interactions, nextInteraction, cache, clock, last>>

\* update_or_create: the insert of a row that the lookup did not find.  When
\* the unique constraint rejects it, either update_or_create reads the row
\* that won and goes on to update it, or the error reaches the except clause
\* of save_movie_and_genres_to_db, which returns None.
UpsertInsert(w) ==
    /\ pc[w] = "upsert_insert"
    /\ IF UniqueViolation(movies, frame[w].data.id)
       THEN /\ \/ Goto(w, "upsert_save",
                       [frame[w] EXCEPT !.obj = CHOOSE m \in movies :
                                                    m.tmdb_id = frame[w].data.id])
               \/ Goto(w, "detail_serialize", frame[w])
            /\ UNCHANGED <<movies, clock>>
       ELSE LET d == Defaults(frame[w].data)
                new == [id |-> uuid4(movies), tmdb_id |-> frame[w].data.id,
                        title |-> d.title, release_date |-> d.release_date,
                        popularity |-> d.popularity,
                        created_at |-> clock + 1, updated_at |-> clock + 1]
            IN  /\ clock < MaxClock
                /\ movies' = movies \cup {new}
                /\ clock' = clock + 1
                /\ Goto(w, "genres_add", [frame[w] EXCEPT !.obj = new, !.upserted = TRUE])
    /\ UNCHANGED <<links, genres, interactions, nextInteraction, cache, last>>

\* update_or_create: the defaults are set on the row read and it is saved
UpsertSave(w) ==
    /\ pc[w] = "upsert_save"
    /\ clock < MaxClock
    /\ LET d == Defaults(frame[w].data)
           new == [frame[w].obj EXCEPT !.title = d.title,
                                       !.release_date = d.release_date,
                                       !.popularity = d.popularity,
                                       !.updated_at = clock + 1]
       IN  /\ movies' = {m \in movies : m.id # new.id} \cup {new}
           /\ clock' = clock + 1
           /\ Goto(w, "genres_add", [frame[w] EXCEPT !.obj = new, !.upserted = TRUE])
    /\ UNCHANGED <<links, genres, interactions, nextInteraction, cache, last>>

\* movie.genres.add(...)
GenresAdd(w) ==
    /\ pc[w] = "genres_add"
    /\ links' = genres_add(links, frame[w].obj, genre_ids_from_tmdb(frame[w].data), genres)
    /\ Goto(w, "detail_serialize", frame[w])
    /\ UNCHANGED <<movies, genres, interactions, nextInteraction, cache, clock, last>>

\* MovieSerializer(movie_obj).data
DetailSerialize(w) ==
    /\ pc[w] = "detail_serialize"
    /\ Goto(w, "detail_cache_set",
            [frame[w] EXCEPT !.payload = MovieSerializer(frame[w].obj, CurrentStore)])
    /\ UNCHANGED <<movies, links, genres, interactions, nextInteraction, cache, clock, last>>

\* cache.set(cache_key, serializer.data, timeout=86400) and the response
DetailCacheSet(w) ==
    /\ pc[w] = "detail_cache_set"
    /\ cache' = cache_set(cache, DetailKey(frame[w].tmdb_id), frame[w].payload,
                          DETAIL_TIMEOUT)
    /\ Respond(w, frame[w], success_response(frame[w].payload, OK_MESSAGE, HTTP_200_OK))
    /\ UNCHANGED <<movies, links, genres, interactions, nextInteraction, clock, last>>

\* UserInteractionsView.post: serializer.is_valid()
PostValidate(w, user, data) ==
    /\ pc[w] = "idle"
    /\ LET f == [Idle EXCEPT !.op = "create_interaction", !.user = user, !.post = data]
       IN  IF is_valid(movies, data)
           THEN Goto(w, "post_save", f)
           ELSE Respond(w, f, error_response("Invalid data provided.", "VALIDATION_ERROR",
                                             HTTP_400_BAD_REQUEST, [errors |-> "invalid"]))
    /\ UNCHANGED <<movies, links, genres, interactions, nextInteraction, cache, clock, last>>

\* UserInteractionsView.post: serializer.save(user=request.user)
PostSave(w) ==
    /\ pc[w] = "post_save"
    /\ LET f == frame[w]
           row == [id |-> nextInteraction, user |-> f.user, movie |-> f.post.movie,
                   interaction_type |-> f.post.interaction_type]
       IN  IF UniqueTogetherViolation(interactions, f.user, f.post.movie,
                                      f.post.interaction_type)
           THEN /\ Respond(w, f, error_response("This interaction already exists.",
                                                "DUPLICATE_INTERACTION",
                                                HTTP_409_CONFLICT, None))
                /\ UNCHANGED <<interactions, nextInteraction>>
           ELSE /\ nextInteraction <= MaxInteractions
                /\ interactions' = interactions \cup {row}
                /\ nextInteraction' = nextInteraction + 1
                /\ Respond(w, f, success_response(
                                     UserMovieInteractionSerializer(row, movies),
                                     "Interaction saved.", HTTP_201_CREATED))
    /\ UNCHANGED <<movies, links, genres, cache, clock, last>>

\* The response has gone out; the worker takes the next request.
Return(w) ==
    /\ pc[w] = "done"
    /\ Goto(w, "idle", Idle)
    /\ UNCHANGED <<movies, links, genres, interactions, nextInteraction, cache, clock, last>>

NextRace ==
    \/ \E w \in Workers, tmdb_id \in DetailIds : DetailCacheGet(w, tmdb_id)
    \/ \E w \in Workers : DetailDbGet(w)
    \/ \E w \in Workers : \E data \in DetailResponses(frame[w].tmdb_id) : DetailFetch(w, data)
    \/ \E w \in Workers : UpsertGet(w)
    \/ \E w \in Workers : UpsertInsert(w)
    \/ \E w \in Workers : UpsertSave(w)
    \/ \E w \in Workers : GenresAdd(w)
    \/ \E w \in Workers : DetailSerialize(w)
    \/ \E w \in Workers : DetailCacheSet(w)
    \/ \E w \in Workers, user \in Users : \E data \in InteractionData :
          PostValidate(w, user, data)
    \/ \E w \in Workers : PostSave(w)
    \/ \E w \in Workers : Return(w)

SpecRace == InitUser /\ [][NextRace]_vars

\* ------------------------------------------------------------------ claims
RowsOf(rows, tmdb_id) == {m \in rows : m.tmdb_id = tmdb_id}
OneRowPerExternalId == \A m1, m2 \in movies : m1.tmdb_id = m2.tmdb_id => m1 = m2
RowsKeepInternalId ==
    \A m \in movies : \E n \in movies' : /\ n.id = m.id
                                         /\ n.tmdb_id = m.tmdb_id
                                         /\ n.created_at = m.created_at

\* C1: after any sequence of trending, detail-by-external-id,
\* recommendations-for-movie and search requests there is at most one Movie
\* row per external id, and a request that synchronizes an external id that
\* has a row leaves that row its internal id (the row is updated in place).
C1_UpsertInPlace == []OneRowPerExternalId /\ [][RowsKeepInternalId]_vars

\* A row has been synchronized again after its creation.
C1_Witness ==
    /\ last.op \in {"trending", "movie_recommendations", "search"}
    /\ \E m \in movies : m.updated_at > m.created_at

\* The worker has called the provider for external id e and its upsert of
\* the record has run to its end.
Raced(w, e) ==
    /\ frame[w].op = "detail_by_tmdb_id"
    /\ frame[w].tmdb_id = e
    /\ frame[w].providerCalls = 1
    /\ UsableId(frame[w].data)
    /\ pc[w] \in {"detail_serialize", "detail_cache_set", "done"}

\* C2: two requests that both miss the cache for the same external id, both
\* call the provider and both upsert the id leave exactly one Movie row of
\* that id, in every interleaving of their steps; no interleaving makes a
\* second row.
C2_RaceLeavesOneRow ==
    \A e \in DetailIds :
        /\ Cardinality(RowsOf(movies, e)) <= 1
        /\ (\A w \in Workers : Raced(w, e)) => Cardinality(RowsOf(movies, e)) = 1

\* Both workers missed the cache and the store, called the provider and
\* wrote the row of the same external id.
C2_Witness ==
    \E e \in DetailIds :
        \A w \in Workers : Raced(w, e) /\ frame[w].upserted /\ pc[w] = "done"

AllRecords == ListRecords \cup UNION {DetailRecords(e) : e \in ExternalIds}

WithoutUpdatedAt(rows) ==
    {[id |-> m.id, tmdb_id |-> m.tmdb_id, title |-> m.title,
      release_date |-> m.release_date, popularity |-> m.popularity,
      created_at |-> m.created_at] : m \in rows}

SameButUpdatedAt(s1, s2) ==
    /\ WithoutUpdatedAt(s1.movies) = WithoutUpdatedAt(s2.movies)
    /\ Cardinality(s1.movies) = Cardinality(s2.movies)
    /\ s1.links = s2.links
    /\ s1.genres = s2.genres

\* C3: the upsert is idempotent: in every store the program reaches and for
\* every provider record, save_movie_and_genres_to_db applied twice leaves
\* the rows, their columns other than updated_at, and the genre links that
\* applying it once leaves, and returns the same row.
C3_UpsertIdempotent ==
    \A d \in AllRecords :
        LET once == save_movie_and_genres_to_db(CurrentStore, d)
            twice == save_movie_and_genres_to_db(Store(once), d)
        IN  /\ SameButUpdatedAt(Store(once), Store(twice))
            /\ (once.obj = None) = (twice.obj = None)
            /\ once.obj # None => /\ twice.obj.id = once.obj.id
                                  /\ Cardinality(RowsOf(twice.movies, d.id)) = 1

\* The store holds a row that a request synchronized a second time with the
\* record that it already mirrored: only updated_at moved.
C3_Witness ==
    \E d \in ListRecords :
        /\ UsableId(d)
        /\ \E m \in movies : /\ m.tmdb_id = d.id
                             /\ m.updated_at > m.created_at
                             /\ m.title = Defaults(d).title
                             /\ m.popularity = Defaults(d).popularity
        /\ SameButUpdatedAt(CurrentStore,
                            Store(save_movie_and_genres_to_db(CurrentStore, d)))

Payload(resp) == Get(resp.data, "data", None)
Hit(c, key) == c[key] # NoEntry

\* C4: a detail request for external id E that misses the cache and succeeds
\* stores its payload under Cache(detail:E); a detail request for E made
\* while that entry is there returns the identical payload and calls the
\* provider not at all.
C4_DetailCachedAfterMiss ==
    [][\A e \in DetailIds : \A data \in DetailResponses(e) :
          DetailByTmdbIdRequest(e, data) =>
              /\ (~Hit(cache, DetailKey(e)) /\ last'.resp.status_code = HTTP_200_OK)
                     => /\ Hit(cache', DetailKey(e))
                        /\ cache'[DetailKey(e)].value = Payload(last'.resp)
              /\ ( /\ last.op = "detail_by_tmdb_id"
                   /\ last.arg.tmdb_id = e
                   /\ last.entry = NoEntry
                   /\ last.resp.status_code = HTTP_200_OK
                   /\ Hit(cache, DetailKey(e))
                   /\ cache[DetailKey(e)].value = Payload(last.resp) )
                     => /\ last'.resp = last.resp
                        /\ last'.providerCalls = 0]_vars

\* A detail request was answered from the entry that an earlier detail
\* request stored.
C4_Witness ==
    /\ last.op = "detail_by_tmdb_id"
    /\ last.entry # NoEntry
    /\ last.providerCalls = 0
    /\ last.resp.status_code = HTTP_200_OK

\* C5: on the trending path and the detail-by-external-id path, a request
\* that finds an entry under its key, whatever the value stored (an empty
\* list too), returns that entry, reads and writes no row of the store and
\* calls the provider not at all.
C5_CacheHitBypasses ==
    (last.op \in {"trending", "detail_by_tmdb_id"} /\ last.entry # NoEntry) =>
        /\ last.resp = success_response(last.entry.value, OK_MESSAGE, HTTP_200_OK)
        /\ last.providerCalls = 0
        /\ last.storeReads = 0
        /\ last.storeWrites = 0

OneRowPerTriple ==
    \A i, j \in interactions :
        ( /\ i.user = j.user
          /\ i.movie = j.movie
          /\ i.interaction_type = j.interaction_type ) => i = j

DuplicateRejected ==
    \A w \in Workers :
        ( /\ PostSave(w)
          /\ UniqueTogetherViolation(interactions, frame[w].user, frame[w].post.movie,
                                     frame[w].post.interaction_type) )
            => /\ frame'[w].resp.status_code = HTTP_409_CONFLICT
               /\ frame'[w].resp.data.status = "error"
               /\ interactions' = interactions

\* C6: the save of an interaction whose (user, movie, type) triple has a row
\* answers 409 and leaves the interaction rows as they are, and in every
\* interleaving of create requests (two concurrent creates of one triple
\* among them) the store holds at most one row per triple.
C6_InteractionUnique == []OneRowPerTriple /\ [][DuplicateRejected]_vars

\* Two concurrent creates of one triple: one was saved, the other refused.
C6_Witness ==
    \E w1, w2 \in Workers :
        /\ pc[w1] = "done" /\ pc[w2] = "done"
        /\ frame[w1].op = "create_interaction"
        /\ frame[w2].op = "create_interaction"
        /\ frame[w1].user = frame[w2].user
        /\ frame[w1].post = frame[w2].post
        /\ frame[w1].resp.status_code = HTTP_201_CREATED
        /\ frame[w2].resp.status_code = HTTP_409_CONFLICT

\* C7: a delete request for an interaction of another user gets the answer
\* that a delete request for an id of no row gets (not found), and the row
\* stays; the delete request of the owner removes the row.
C7_DeleteOnlyByOwner ==
    [][\A user \in Users : \A interaction_id \in 1..nextInteraction :
          DeleteInteraction(user, interaction_id) =>
              IF \E i \in interactions : i.id = interaction_id /\ i.user = user
              THEN /\ interactions' = {i \in interactions : i.id # interaction_id}
                   /\ last'.resp.status_code = HTTP_204_NO_CONTENT
              ELSE /\ interactions' = interactions
                   /\ last'.resp.status_code = HTTP_404_NOT_FOUND
                   /\ last'.resp = UserInteractionDetailView_delete(
                                       interactions, user, nextInteraction).resp]_vars

\* A user asked to delete the interaction of another user: not found, and the
\* row is there.
C7_Witness ==
    /\ last.op = "delete_interaction"
    /\ last.resp.status_code = HTTP_404_NOT_FOUND
    /\ \E i \in interactions : i.id = last.arg.interaction_id /\ i.user # last.user

\* C8: the personalized recommendations of a user with liked genres hold no
\* movie that the user has an interaction with, of whatever type.
C8_NoInteractedMovieRecommended ==
    (last.op = "user_recommendations" /\ last.resp.data.message = PERSONALIZED) =>
        \A k \in DOMAIN Payload(last.resp).list :
            \A i \in interactions :
                i.user = last.user => i.movie # Payload(last.resp).list[k].id

\* Personalized recommendations were made for a user who has bookmarked or
\* watched, and not liked, a movie of one of the liked genres.
C8_Witness ==
    /\ last.op = "user_recommendations"
    /\ last.resp.data.message = PERSONALIZED
    /\ \E i \in interactions :
          /\ i.user = last.user
          /\ i.interaction_type # LIKED
          /\ \A j \in interactions : (j.user = i.user /\ j.movie = i.movie) => j = i
          /\ \E g \in liked_genres_ids(interactions, links, last.user) :
                <<i.movie, g>> \in links

\* C9: the recommendations of a user without liked genres are the answer of
\* the trending path for the same cache, store and provider answer: the same
\* transport code and status, and as data the trending movie list; only the
\* message differs.
C9_FallbackIsTrendingVerbatim ==
    [][\A user \in {u \in Users : liked_genres_ids(interactions, links, u) = {}} :
          \A data \in InTime(FewListResponses) :
              UserRecommendationsRequest(user, data, <<>>) =>
              LET trending == TrendingMoviesView_get(CurrentStore, cache, data).resp
              IN  /\ last'.resp.status_code = trending.status_code
                  /\ last'.resp.data.status = trending.data.status
                  /\ Payload(last'.resp) = Payload(trending)]_vars

Blank(s) == \A i \in DOMAIN s : s[i] \in Whitespace

\* C10: a search request whose query is missing, empty or all whitespace is
\* answered 400, calls the provider not at all and writes neither the store
\* nor the cache.
C10_BlankSearchRejected ==
    [][last'.op = "search" =>
          \A query_params \in {q \in {last'.arg.query_params} :
                                      Blank(Get(q, "query", <<>>))} :
              \A data \in InTime(ListResponses) :
                  SearchRequest(query_params, data) =>
                      /\ last'.resp.status_code = HTTP_400_BAD_REQUEST
                      /\ last'.resp.data.status = "error"
                      /\ last'.providerCalls = 0
                      /\ last'.storeWrites = 0
                      /\ last'.cacheWrites = 0
                      /\ UNCHANGED <<movies, links, genres, cache, clock>>]_vars

\* A search for a query of whitespace alone was refused.
C10_Witness ==
    /\ last.op = "search"
    /\ "query" \in DOMAIN last.arg.query_params
    /\ last.arg.query_params.query # <<>>
    /\ Blank(last.arg.query_params.query)
    /\ last.resp.status_code = HTTP_400_BAD_REQUEST

GenreIds(genreRows) == {g.id : g \in genreRows}

\* The upsert of record d on the current store links only ids of Genre rows
\* that d names, links none of the ids without a row, and returns the Genre
\* table as it found it.
UpsertLinksOnlySeeded(d) ==
    LET r == save_movie_and_genres_to_db(CurrentStore, d)
        added == r.links \ links
    IN  /\ r.genres = genres
        /\ \A l \in added : /\ l[2] \in GenreIds(genres)
                             /\ l[2] \in Range(genre_ids_from_tmdb(d))
                             /\ l[1] = r.obj.id
        /\ \A id \in Range(genre_ids_from_tmdb(d)) \ GenreIds(genres) :
               \A l \in added : l[2] # id

\* A step that changes the Genre table is the genre-list sync: it runs no
\* request and touches neither the Movie rows nor the links.
OnlySeedChangesGenres ==
    genres' # genres => /\ last' = last
                        /\ movies' = movies
                        /\ links' = links

\* C11: the movie upsert creates, renames and deletes no Genre row: for a
\* record that names a genre id of no Genre row no link is made for that id
\* and the Genre table stays as it is; only ids of Genre rows are linked.
C11_UpsertLeavesGenres ==
    /\ [](\A d \in AllRecords : UpsertLinksOnlySeeded(d))
    /\ [](\A l \in links : l[2] \in GenreIds(genres))
    /\ [][OnlySeedChangesGenres]_vars

\* The record of genre ids 1 and 2 was upserted while the Genre table held
\* id 1 alone: the movie is linked to 1 and not to 2.
C11_Witness ==
    \E m \in movies :
        /\ m.tmdb_id = 2
        /\ <<m.id, 1>> \in links
        /\ <<m.id, 2>> \notin links
        /\ 2 \notin GenreIds(genres)

\* C12: an upsert that skips a genre id because the id has no Genre row
\* emits a log entry of warning level.
C12_SkippedGenreLogged ==
    \A d \in AllRecords :
        ( /\ UsableId(d)
          /\ Range(genre_ids_from_tmdb(d)) \ GenreIds(genres) # {} )
            => save_movie_and_genres_to_db(CurrentStore, d).warnings > 0

\* The test of line 177: the request goes on to the provider.
TrendingMiss == ~Truthy(cache_get(cache, TRENDING_KEY))

\* C13: a trending request that misses the cache while the provider is
\* unavailable is answered 503 (an error), and leaves the cache and the
\* store as they were.
C13_TrendingUnavailable ==
    [][last'.op = "trending" =>
          ( (TrendingMiss /\ TrendingRequest(None)) =>
                /\ last'.resp.status_code = HTTP_503_SERVICE_UNAVAILABLE
                /\ last'.resp.data.status = "error"
                /\ last'.providerCalls = 1
                /\ UNCHANGED <<movies, links, genres, cache, clock>> )]_vars

\* A trending request over a filled store found no cache entry and no
\* provider: 503.
C13_Witness ==
    /\ last.op = "trending"
    /\ last.entry = NoEntry
    /\ last.resp.status_code = HTTP_503_SERVICE_UNAVAILABLE
    /\ movies # {}
    /\ cache[TRENDING_KEY] = NoEntry

\* C14: a trending request that misses the cache while the provider
\* answers, with whatever result list, upserts every record of the list, and
\* its success response and the entry it stores under the trending key are
\* the serialization of the rows upserted, in the order of the list.
C14_TrendingSynchronizes ==
    [][last'.op = "trending" =>
          \A data \in InTime(ListResponses) \ {None} :
              (TrendingMiss /\ TrendingRequest(data)) =>
                  LET sv == save_all(CurrentStore, Get(data, "results", <<>>))
                      payload == MovieSerializerMany(sv.objs, sv.store)
                  IN  /\ last'.resp = success_response(payload, OK_MESSAGE, HTTP_200_OK)
                      /\ Hit(cache', TRENDING_KEY)
                      /\ cache'[TRENDING_KEY].value = payload
                      /\ movies' = sv.store.movies
                      /\ links' = sv.store.links]_vars

\* The tests of lines 238 and 244: the request goes on to the provider.
DetailMiss(e) == ~Truthy(cache_get(cache, DetailKey(e))) /\ ~TmdbIdTaken(movies, e)

\* C15: a detail request by external id that misses the cache and the store
\* while the provider is unavailable is answered 404 (an error); it writes
\* no cache entry and creates no Movie row.
C15_DetailUnavailable ==
    [][last'.op = "detail_by_tmdb_id" =>
          \A e \in DetailIds :
              (DetailMiss(e) /\ DetailByTmdbIdRequest(e, None)) =>
                  /\ last'.resp.status_code = HTTP_404_NOT_FOUND
                  /\ last'.resp.data.status = "error"
                  /\ last'.providerCalls = 1
                  /\ UNCHANGED <<movies, links, genres, cache, clock>>]_vars

\* A detail request found neither entry, row nor provider: 404, and the
\* store, which holds rows of other external ids, holds none of this one.
C15_Witness ==
    /\ last.op = "detail_by_tmdb_id"
    /\ last.resp.status_code = HTTP_404_NOT_FOUND
    /\ last.providerCalls = 1
    /\ movies # {}
    /\ ~TmdbIdTaken(movies, last.arg.tmdb_id)
    /\ cache[last.arg.key] = NoEntry

\* C16: a request that names a movie by an internal id of no Movie row is
\* answered 404, on the detail path and on the recommendations-for-movie
\* path, and calls the provider not at all.  (No request deletes a Movie row:
\* an id without a row now had none when the request ran.)
C16_AbsentInternalIdNotFound ==
    ( /\ last.op \in {"movie_detail", "movie_recommendations"}
      /\ ~\E m \in movies : m.id = last.arg.movie_id )
        => /\ last.resp.status_code = HTTP_404_NOT_FOUND
           /\ last.resp.data.status = "error"
           /\ last.providerCalls = 0

\* The serializations of Movie rows: a payload that carries the row's id.
IsMoviePayload(p) == "id" \in DOMAIN p
ListOps == {"trending", "movie_recommendations", "search"}

\* C17: on every synchronizer path, a provider record whose upsert produces
\* no movie is treated as no movie produced: a list path's success response
\* holds one serialized row per record that upserted and nothing for the
\* others, and the detail path, given a record without usable external id,
\* answers no success and writes no cache entry.
C17_NoMovieProduced ==
    [][/\ (last'.op \in ListOps /\ last'.providerCalls = 1
                                 /\ last'.resp.status_code = HTTP_200_OK) =>
              /\ Len(Payload(last'.resp).list) = last'.storeWrites
              /\ \A k \in DOMAIN Payload(last'.resp).list :
                     IsMoviePayload(Payload(last'.resp).list[k])
       /\ last'.op = "detail_by_tmdb_id" =>
              \A e \in DetailIds :
                  \A data \in {d \in DetailResponses(e) : Truthy(d) /\ ~UsableId(d)} :
                      (DetailMiss(e) /\ DetailByTmdbIdRequest(e, data)) =>
                          /\ last'.resp.data.status # "success"
                          /\ cache' = cache]_vars

\* Payloads without a usable external id: no payload, no id key, id 0.
UnusableRecords ==
    {d \in AllRecords : ~UsableId(d)}
        \cup {None, [id |-> 0, title |-> "Z", popularity |-> 1, genre_ids |-> <<1>>]}

\* C18: the upsert of a payload without usable external id fails fast: it
\* returns no movie and leaves every Movie row and every movie-genre link
\* as it was.
C18_UnusableIdFailsFast ==
    \A d \in UnusableRecords :
        LET r == save_movie_and_genres_to_db(CurrentStore, d)
        IN  /\ r.obj = None
            /\ r.movies = movies
            /\ r.links = links
            /\ r.genres = genres
            /\ r.clock = clock

\* A trending request over a filled store was answered with records without
\* usable id alone: the provider was called, nothing was written and the
\* list returned is empty.
C18_Witness ==
    /\ last.op = "trending"
    /\ last.providerCalls = 1
    /\ last.resp.status_code = HTTP_200_OK
    /\ Payload(last.resp) = JsonList(<<>>)
    /\ last.storeWrites = 0
    /\ movies # {}

SuccessCodes == {HTTP_200_OK, HTTP_201_CREATED, HTTP_204_NO_CONTENT}
ErrorCodes == {HTTP_400_BAD_REQUEST, HTTP_404_NOT_FOUND, HTTP_409_CONFLICT,
               HTTP_500_INTERNAL_SERVER_ERROR, HTTP_503_SERVICE_UNAVAILABLE}

\* C19: every response carries the status field; status is "success"
\* exactly with a transport code of 200, 201 or 204 and "error" exactly with
\* one of 400, 404, 409, 500, 503; and no response of status success stands
\* for an operation that failed (its data is not the envelope of an error).
C19_EnvelopeDiscriminates ==
    last.op # "none" =>
        /\ "status" \in DOMAIN last.resp.data
        /\ last.resp.data.status \in {"success", "error"}
        /\ last.resp.data.status = "success" <=> last.resp.status_code \in SuccessCodes
        /\ last.resp.data.status = "error" <=> last.resp.status_code \in ErrorCodes
        /\ last.resp.data.status = "success" =>
               Get(Payload(last.resp), "status", "success") # "error"

\* A step in which the cache loses an entry.
CacheLoss == \E key \in CacheKeys : cache[key] # NoEntry /\ cache'[key] = NoEntry

\* The serialized movies that the cache holds.
CachedMovies ==
    UNION {IF cache[key] = NoEntry THEN {}
           ELSE IF "list" \in DOMAIN cache[key].value
                THEN Range(cache[key].value.list)
                ELSE {cache[key].value} : key \in CacheKeys}

\* Every movie serialized in the cache is a Movie row of the store.
CachedMoviesHaveRows ==
    \A p \in {q \in CachedMovies : IsMoviePayload(q)} :
        \E m \in movies : m.id = p.id /\ m.tmdb_id = p.tmdb_id

\* C20: the loss of a cache entry (expiry or flush, of one entry or, step
\* after step, of all) changes no Movie, Genre, link or interaction row;
\* the requests that follow keep one Movie row per external id; and the
\* cache holds no movie that the store does not hold.
C20_CacheLossHarmless ==
    /\ [][CacheLoss => UNCHANGED <<movies, links, genres, interactions,
                                    nextInteraction, clock>>]_vars
    /\ []OneRowPerExternalId
    /\ []CachedMoviesHaveRows

\* The entry that the latest request wrote is lost, no entry is left, and
\* the rows are there.
C20_Witness ==
    /\ last.cacheWrites = 1
    /\ last.resp.status_code = HTTP_200_OK
    /\ \A key \in CacheKeys : cache[key] = NoEntry
    /\ \E m \in movies : m.updated_at > m.created_at

\* The Movie row of external id e.
RowOf(e) == CHOOSE m \in movies : m.tmdb_id = e

\* C21: a detail request by external id that misses the cache while the
\* store holds a Movie row of that id answers with the serialization of the
\* row, writes that payload under the detail key with the 24-hour timeout,
\* calls the provider not at all and writes no row.
C21_DetailFromStore ==
    [][last'.op = "detail_by_tmdb_id" =>
          \A e \in DetailIds :
              ( /\ ~Truthy(cache_get(cache, DetailKey(e)))
                /\ TmdbIdTaken(movies, e)
                /\ \E data \in DetailResponses(e) : DetailByTmdbIdRequest(e, data) ) =>
                  /\ last'.resp = success_response(MovieSerializer(RowOf(e), CurrentStore),
                                                   OK_MESSAGE, HTTP_200_OK)
                  /\ cache'[DetailKey(e)] =
                         [value |-> MovieSerializer(RowOf(e), CurrentStore),
                          timeout |-> 86400]
                  /\ last'.providerCalls = 0
                  /\ last'.storeWrites = 0
                  /\ UNCHANGED <<movies, links, genres, clock>>]_vars

\* A detail request found no entry and found the row: it answered from the
\* store and stored the answer.
C21_Witness ==
    /\ last.op = "detail_by_tmdb_id"
    /\ last.entry = NoEntry
    /\ last.providerCalls = 0
    /\ last.storeReads = 1
    /\ last.resp.status_code = HTTP_200_OK
    /\ IsMoviePayload(Payload(last.resp))
    /\ cache[last.arg.key] = [value |-> Payload(last.resp), timeout |-> DETAIL_TIMEOUT]

\* What the provider answers when it is unavailable or has no results.
EmptyAnswers == {None, [results |-> <<>>]}

\* The response is a success that carries the empty list.
EmptySuccess(resp) ==
    /\ resp.status_code = HTTP_200_OK
    /\ resp.data.status = "success"
    /\ Payload(resp) = JsonList(<<>>)

\* C22: on the recommendations-for-movie path with the base movie present,
\* and on the search path with a query that is not blank, an empty answer of
\* the provider or no answer at all gives a success with the empty list and
\* leaves the store and the cache as they were; the recommendations path
\* writes the cache for no answer whatever.
C22_EmptyAnswerIsEmptySuccess ==
    [][/\ last'.op = "movie_recommendations" =>
              /\ \A movie_id \in {m.id : m \in movies} \cap {last'.arg.movie_id} :
                     \A data \in EmptyAnswers :
                         MovieRecommendationsRequest(movie_id, data) =>
                             /\ EmptySuccess(last'.resp)
                             /\ last'.providerCalls = 1
                             /\ UNCHANGED <<movies, links, genres, cache, clock>>
              /\ last'.cacheWrites = 0
              /\ \A key \in CacheKeys : cache'[key] \in {cache[key], NoEntry}
       /\ last'.op = "search" =>
              \A query_params \in {q \in {last'.arg.query_params} :
                                          ~Blank(Get(q, "query", <<>>))} :
                  \A data \in EmptyAnswers :
                      SearchRequest(query_params, data) =>
                          /\ EmptySuccess(last'.resp)
                          /\ last'.providerCalls = 1
                          /\ UNCHANGED <<movies, links, genres, cache, clock>>]_vars

\* The recommendations for a movie of the store, and a search, found the
\* provider with nothing to say: the success with the empty list.
C22_Witness ==
    /\ last.op \in {"movie_recommendations", "search"}
    /\ last.providerCalls = 1
    /\ EmptySuccess(last.resp)
    /\ last.resp.data.message \in {"No recommendations found for this movie.",
                                    "No movies found for your query."}
    /\ movies # {}
    /\ \E key \in CacheKeys : cache[key] # NoEntry

\* The liked-genre set of a user: the genres linked to the movies that the
\* user has marked LIKED.
LikedGenres(user) ==
    {g \in GenreIds(genres) :
        \E i \in interactions : /\ i.user = user
                                 /\ i.interaction_type = LIKED
                                 /\ <<i.movie, g>> \in links}

\* The reference result: the movies with a genre of the liked set and no
\* interaction of the user.
Reference(user) ==
    {m \in movies :
        /\ \E g \in LikedGenres(user) : <<m.id, g>> \in links
        /\ ~\E i \in interactions : i.user = user /\ i.movie = m.id}

MinOf(a, b) == IF a <= b THEN a ELSE b

\* C23: for a user whose liked-genre set is not empty the personalized
\* recommendations are the reference result: movies with a genre of the
\* liked set and no interaction of the user, each once, in descending order
\* of popularity, cut after the first 20.  (The request changes no row, so
\* the reference is taken on the state that the request left.)
C23_RecommendationsMatchReference ==
    (last.op = "user_recommendations" /\ LikedGenres(last.user) # {}) =>
        LET out == Payload(last.resp).list
            ref == Reference(last.user)
        IN  /\ last.resp.data.message = PERSONALIZED
            /\ Len(out) = MinOf(Cardinality(ref), 20)
            /\ \A k \in DOMAIN out :
                   \E m \in ref : out[k] = MovieSerializer(m, CurrentStore)
            /\ \A j, k \in DOMAIN out : out[j].id = out[k].id => j = k
            /\ \A j, k \in DOMAIN out : j < k => out[j].popularity >= out[k].popularity
            /\ \A m \in ref :
                   (\A k \in DOMAIN out : out[k].id # m.id) =>
                       \A k \in DOMAIN out : out[k].popularity >= m.popularity

\* More than 20 movies qualified, some of them by two liked genres: the
\* answer holds 20.
C23_Witness ==
    /\ last.op = "user_recommendations"
    /\ LikedGenres(last.user) = {1, 2}
    /\ Cardinality(Reference(last.user)) > 20
    /\ Len(Payload(last.resp).list) = 20
    /\ \E i \in interactions : i.user = last.user /\ i.interaction_type # LIKED

\* C24: a user-recommendations request of a user whose liked-genre set is
\* not empty is a pure read: no provider call, no cache entry written, and
\* every Movie, Genre, link and interaction row as it was.  (Every step of
\* this specification is a request, and last'.op names it.)
C24_PersonalizedIsPureRead ==
    [][(last'.op = "user_recommendations" /\ LikedGenres(last'.user) # {}) =>
          /\ last'.resp.data.message = PERSONALIZED
          /\ last'.providerCalls = 0
          /\ last'.storeWrites = 0
          /\ last'.cacheWrites = 0
          /\ UNCHANGED <<movies, links, genres, interactions, nextInteraction,
                         cache, clock>>]_vars

\* Personalized recommendations were made while the cache held the trending
\* entry and the store held rows.
C24_Witness ==
    /\ last.op = "user_recommendations"
    /\ last.resp.data.message = PERSONALIZED
    /\ last.providerCalls = 0
    /\ cache[TRENDING_KEY] # NoEntry
    /\ Payload(last.resp) # JsonList(<<>>)

\* The genre ids linked to the movie of internal id i by the links lnk.
LinkedGenres(lnk, i) == {l[2] : l \in {k \in lnk : k[1] = i}}

\* The genre ids a record names, whichever of its two forms it has.
NamedGenres(d) ==
    IF Get(d, "genre_ids", <<>>) # <<>> THEN Range(d.genre_ids)
    ELSE {g.id : g \in Range(Get(d, "genres", <<>>))}

\* C25: genre links only grow: after the upsert of a movie that has a row,
\* the genre set linked to it is its genre set before united with those
\* ids of the record that have a Genre row, so a genre the provider stops
\* reporting stays linked; and no step removes a link.
C25_GenreLinksOnlyGrow ==
    /\ [](\A d \in {r \in AllRecords : UsableId(r)} :
            \A m \in {r \in movies : r.tmdb_id = d.id} :
                LinkedGenres(save_movie_and_genres_to_db(CurrentStore, d).links, m.id)
                    = LinkedGenres(links, m.id)
                        \cup (NamedGenres(d) \cap GenreIds(genres)))
    /\ [][links \subseteq links']_vars

\* A movie upserted from a record naming genre 1 alone and from a record
\* naming genre 2 alone is linked to both.
C25_Witness ==
    \E m \in movies :
        /\ m.tmdb_id = 1
        /\ LinkedGenres(links, m.id) = {1, 2}
        /\ m.updated_at > m.created_at

\* How each path renders the provider's unavailability: trending 503,
\* detail 404, recommendations-for-movie and search the empty list, the
\* user-recommendations fallback the trending path's 503 envelope.
UnavailableOutcome(op, resp) ==
    CASE op = "trending" ->
            resp.status_code = HTTP_503_SERVICE_UNAVAILABLE /\ resp.data.status = "error"
      [] op = "detail_by_tmdb_id" ->
            resp.status_code = HTTP_404_NOT_FOUND /\ resp.data.status = "error"
      [] op \in {"movie_recommendations", "search"} -> EmptySuccess(resp)
      [] op = "user_recommendations" ->
            /\ resp.data.message = FALLBACK
            /\ Get(Payload(resp), "code", "") = "TMDB_API_ERROR"
      [] OTHER -> FALSE

\* C26: no retry: every request (trending, detail, recommendations for a
\* movie, search, user recommendations and their trending fallback) makes
\* at most one provider call; when the one call fails by an HTTP error, a
\* connection error or a timeout the request ends in its path's unavailable
\* outcome with nothing written, whatever a second attempt would have got.
C26_NoRetry ==
    /\ last.providerCalls <= 1
    /\ (last.providerCalls >= 1 /\ Head(last.arg.answers) \in Failures) =>
          /\ UnavailableOutcome(last.op, last.resp)
          /\ last.storeWrites = 0
          /\ last.cacheWrites = 0

\* A user-recommendations request fell back to trending and asked the
\* provider once; the attempt timed out while a second would have got a
\* body, and the request ended unavailable.
C26_Witness ==
    /\ last.op = "user_recommendations"
    /\ last.providerCalls = 1
    /\ Head(last.arg.answers) = [error |-> "Timeout"]
    /\ last.arg.answers[2] \in ListBodies
    /\ UnavailableOutcome(last.op, last.resp)
    /\ movies # {}

\* C27: the admin endpoints (list users, delete user, assign role) use one
\* authorization predicate, "the identity holds role admin": a user is
\* authorized on each of them exactly if it holds the role 'admin', so a
\* user the role was assigned to is answered by the user list and a user
\* without the role is refused.
C27_OneAdminPredicate ==
    /\ \A u \in users : \A view \in AdminViews :
          has_permission(view, u) <=> ADMIN \in u.roles
    /\ (last.op = "admin_user_list" /\ last.user \in UserIds(users)) =>
          (last.resp.status_code = HTTP_200_OK
              <=> ADMIN \in UserRow(users, last.user).roles)

\* C29: referential integrity of interactions: through create-interaction,
\* delete-interaction and admin delete-user requests every interaction row
\* references a User row and a Movie row that exist; a create for a movie id
\* of no Movie row is refused and writes no row; and after a user is deleted
\* no interaction of that user is left.
C29_InteractionsReferToRows ==
    /\ [](\A i \in interactions :
            /\ i.user \in UserIds(users)
            /\ \E m \in movies : m.id = i.movie)
    /\ []((last.op = "admin_delete_user"
             /\ last.resp.status_code = HTTP_204_NO_CONTENT) =>
            /\ last.arg.user_id \notin UserIds(users)
            /\ \A i \in interactions : i.user # last.arg.user_id)
    /\ [][(last'.op = "create_interaction"
             /\ ~\E m \in movies : m.id = last'.arg.movie) =>
              /\ last'.resp.status_code = HTTP_400_BAD_REQUEST
              /\ last'.storeWrites = 0
              /\ interactions' = interactions]_vars

\* A user who had interactions was deleted: the request removed the User
\* row and at least one interaction row.
C29_Witness ==
    /\ last.op = "admin_delete_user"
    /\ last.resp.status_code = HTTP_204_NO_CONTENT
    /\ last.storeWrites >= 2
    /\ last.arg.user_id \notin UserIds(users)

\* C28: cache coherence of detail entries: whenever Cache(detail:E) holds an
\* unexpired entry, the store holds a Movie row of external id E and the
\* entry is the serialization of that row as it is now, whatever trending,
\* search and recommendations-for-movie requests have upserted since.
C28_DetailEntryIsCurrentRow ==
    \A e \in DetailIds :
        cache[DetailKey(e)] # NoEntry =>
            /\ TmdbIdTaken(movies, e)
            /\ cache[DetailKey(e)].value = MovieSerializer(RowOf(e), CurrentStore)

====
